---- MODULE Spec2Model ----
(***************************************************************************)
(* State-machine model of watcher/objects/action_plan.py: the ActionPlan   *)
(* versioned object (identifier dispatch, change tracking, save/refresh,   *)
(* cascading soft_delete and destroy) over a storage layer holding the     *)
(* action_plans, actions, efficacy_indicators, audits and strategies       *)
(* tables.  Every storage call is one atomic step; a cascade is a sequence *)
(* of such steps, so that other callers can interleave and a call can fail *)
(* part-way through.                                                       *)
(***************************************************************************)
EXTENDS Integers, Sequences, FiniteSets, TLC

VARIABLES
    plans,       \* action_plans table: uuid -> row (DOMAIN = the rows present)
    actions,     \* actions table: id -> [plan, deleted]
    indicators,  \* efficacy_indicators table: id -> [plan, deleted]
    audits,      \* ids of the Audit rows present
    strategies,  \* ids of the Strategy rows present
    nextId,      \* table -> the next primary key it hands out
    obj,         \* caller -> the ActionPlan object it holds (fields, changed fields, relationships)
    pc,          \* caller -> position inside the method it is running
    rel,         \* caller -> the related_* list the running cascade iterates (ids still to visit)
    listed,      \* caller -> the related Actions / EfficacyIndicators the running cascade listed
    calls,       \* caller -> storage calls issued, in order, by its current or last cascade
    wrote,       \* caller -> whether its current or last cascade has changed a table
    assigned,    \* caller -> field -> value, as the caller assigned since its object was hydrated or saved
    last         \* the step taken last: caller, method, how it ended, the storage call it made

vars == <<plans, actions, indicators, audits, strategies, nextId,
          obj, pc, rel, listed, calls, wrote, assigned, last>>

-----------------------------------------------------------------------------
(* Bounds of the model *)

MaxActions == 2       \* ids of the actions table are 1..MaxActions
MaxIndicators == 2    \* ids of the efficacy_indicators table are 1..MaxIndicators
MaxPlanId == 3        \* the action_plans table hands out ids up to this one
MaxKeyLen == 3        \* longest key handed to ActionPlan.get
UuidHexLen == 2       \* hex digits of a UUID (32 in the program, scaled down)

Handles == {"h1", "h2"}
ActionIds == 1..MaxActions
IndicatorIds == 1..MaxIndicators

\* Characters of keys: two decimal digits, a hex letter, a non-hex letter, a hyphen.
Digits == {"0", "1"}
HexChars == Digits \cup {"a"}
KeyChars == HexChars \cup {"g", "-"}

\* uuids of action plans: canonical UUID strings; <<"1","1">> is all decimal digits
Uuids == {<<"a", "0">>, <<"1", "1">>}

-----------------------------------------------------------------------------
(* class State *)

RECOMMENDED == "RECOMMENDED"
PENDING == "PENDING"
ONGOING == "ONGOING"
FAILED == "FAILED"
SUCCEEDED == "SUCCEEDED"
DELETED == "DELETED"
CANCELLED == "CANCELLED"

State == {RECOMMENDED, PENDING, ONGOING, FAILED, SUCCEEDED, DELETED, CANCELLED}

\* None in a nullable string or dict field, and in a nullable integer field
None == "None"
NullId == 0

\* What a caller may assign to state: the field is a nullable StringField, so
\* any string or None; "BOGUS" stands for a string that is no lifecycle state.
StateInputs == State \cup {None, "BOGUS"}

-----------------------------------------------------------------------------
(* ActionPlan.fields and ActionPlan.object_fields *)

object_fields == {"audit", "strategy"}

fields == {"id", "uuid", "audit_id", "strategy_id", "first_action_id",
           "state", "global_efficacy"} \cup object_fields

\* the columns of a row: the fields that are not relationships
Columns == fields \ object_fields

\* The value a column takes when create() is given none.
ColumnDefault(k) ==
    IF k \in {"id", "audit_id", "strategy_id", "first_action_id"} THEN NullId ELSE None

\* No object held; and the tables at a point in time.
NoObj == [f |-> <<>>, changed |-> {}, audit |-> NullId, strategy |-> NullId]

Tables == [plans |-> plans, actions |-> actions, indicators |-> indicators]

NoneListed == [actions |-> {}, indicators |-> {}]

Idle == "idle"
NoCall == [op |-> "none"]

-----------------------------------------------------------------------------
(* Change tracking of the versioned object (base.WatcherObject) *)

\* obj_get_changes(): field name -> value, for the fields assigned since the last reset
obj_get_changes(o) == [k \in o.changed |-> o.f[k]]

obj_reset_changes(o) == [o EXCEPT !.changed = {}]

\* attribute assignment: the field takes the value and is recorded as changed
SetAttr(o, k, v) ==
    [o EXCEPT !.f = [j \in (DOMAIN o.f) \cup {k} |-> IF j = k THEN v ELSE o.f[j]],
              !.changed = @ \cup {k}]

\* obj_refresh(loaded): overlays every column of the loaded object onto self by
\* assignment, column by column, where the two differ
RECURSIVE OverlayColumns(_, _, _)
OverlayColumns(o, loaded, ks) ==
    IF ks = {} THEN o
    ELSE LET k == CHOOSE j \in ks : TRUE
             o1 == IF k \in DOMAIN o.f /\ o.f[k] = loaded.f[k]
                   THEN o
                   ELSE SetAttr(o, k, loaded.f[k])
         IN  OverlayColumns(o1, loaded, ks \ {k})

obj_refresh(o, loaded) == OverlayColumns(o, loaded, Columns)

\* Whether the relationships of a row can be loaded: an id that is set must
\* name a row that is present.
RelationsPresent(row) ==
    /\ row.audit_id # NullId => row.audit_id \in audits
    /\ row.strategy_id # NullId => row.strategy_id \in strategies

\* _from_db_object(obj, db_object, eager): every column is taken from the row;
\* with eager the relationships whose id is set are loaded; the changes are reset.
FromDbObject(o, row, eager) ==
    [f |-> [k \in Columns |-> row[k]],
     changed |-> {},
     audit |-> IF eager /\ row.audit_id # NullId THEN row.audit_id ELSE o.audit,
     strategy |-> IF eager /\ row.strategy_id # NullId THEN row.strategy_id ELSE o.strategy]

\* _from_db_object stopped by a relationship that cannot be loaded: the columns
\* were assigned, the changes were not reset.
PartlyHydrated(o, row) ==
    [o EXCEPT !.f = [k \in Columns |-> row[k]], !.changed = @ \cup Columns]

HydrateFails(row, eager) == eager /\ ~RelationsPresent(row)

-----------------------------------------------------------------------------
(* Storage layer (dbapi) *)

\* update_action_plan(uuid, updates): the row with exactly the given columns replaced
UpdatedRow(row, updates) ==
    [k \in DOMAIN row |-> IF k \in DOMAIN updates THEN updates[k] ELSE row[k]]

\* soft_delete_action_plan(uuid): the row marked soft-deleted
SoftDeletedRow(row) == [row EXCEPT !.deleted = TRUE]

\* create_action_plan(values): a new row with the given columns, defaults elsewhere
CreatedRow(values, id) ==
    [k \in Columns \cup {"deleted"} |->
        IF k = "id" THEN id
        ELSE IF k = "deleted" THEN FALSE
        ELSE IF k \in DOMAIN values THEN values[k]
        ELSE ColumnDefault(k)]

\* Action.list / EfficacyIndicator.list(filters={"action_plan_uuid": uuid}): ids in key order
RelatedIds(table, uuid) == {i \in DOMAIN table : table[i].plan = uuid}

RECURSIVE SortedSeq(_)
SortedSeq(S) ==
    IF S = {} THEN <<>>
    ELSE LET m == CHOOSE i \in S : \A j \in S : i <= j
         IN  <<m>> \o SortedSeq(S \ {m})

-----------------------------------------------------------------------------
(* Steps *)

\* The object was hydrated from a row (or created): every column is set.
Hydrated(h) == DOMAIN obj[h].f = Columns

CanStart(h) == pc[h] = Idle

\* The step is recorded; for a save(), also whether the step before was a
\* save() of the same caller that succeeded (nothing happened in between).
Done(h, op, status, call) ==
    last' = [h |-> h, op |-> op, status |-> status, call |-> call,
             twice |-> (op = "save" /\ last.h = h /\ last.op = "save"
                                   /\ last.status = "ok")]

\* How a storage call on a row ends: the call itself may fail; the row may be gone.
Outcome(ok, present) ==
    IF ~ok THEN "StorageFailure" ELSE IF ~present THEN "NotFound" ELSE "ok"

Without(table, key) == [k \in (DOMAIN table) \ {key} |-> table[k]]

-----------------------------------------------------------------------------
(* ActionPlan.get_by_id, get_by_uuid, list *)

\* Mutant of Load: a relationship that cannot be loaded does not stop the lookup.
LoadIgnoresMissing(h, op, call, ok, found, eager) ==
    LET status == Outcome(ok, found # {})
    IN  /\ CanStart(h)
        /\ Done(h, op, status, call)
        /\ IF status = "ok"
           THEN \E u \in found :
                   /\ obj' = [obj EXCEPT ![h] = FromDbObject(NoObj, plans[u], eager)]
                   /\ assigned' = [assigned EXCEPT ![h] = <<>>]
           ELSE UNCHANGED <<obj, assigned>>
        /\ listed' = [listed EXCEPT ![h] = NoneListed]
        /\ calls' = [calls EXCEPT ![h] = <<>>]
        /\ wrote' = [wrote EXCEPT ![h] = FALSE]
        /\ UNCHANGED <<plans, actions, indicators, audits, strategies, nextId, pc, rel>>

\* The object a lookup hands to the caller, when the row is there and hydrates.
Load(h, op, call, ok, found, eager) ==
    LET present == found # {} /\ \A u \in found : ~HydrateFails(plans[u], eager)
        status == Outcome(ok, present)
    IN  /\ CanStart(h)
        /\ Done(h, op, status, call)
        /\ IF status = "ok"
           THEN \E u \in found :
                   /\ obj' = [obj EXCEPT ![h] = FromDbObject(NoObj, plans[u], eager)]
                   /\ assigned' = [assigned EXCEPT ![h] = <<>>]
           ELSE UNCHANGED <<obj, assigned>>
        /\ listed' = [listed EXCEPT ![h] = NoneListed]
        /\ calls' = [calls EXCEPT ![h] = <<>>]
        /\ wrote' = [wrote EXCEPT ![h] = FALSE]
        /\ UNCHANGED <<plans, actions, indicators, audits, strategies, nextId, pc, rel>>

GetByIdAs(h, op, id, key, ok, eager) ==
    Load(h, op, [op |-> "get_action_plan_by_id", key |-> key, eager |-> eager], ok,
         {u \in DOMAIN plans : plans[u].id = id}, eager)

GetByUuidAs(h, op, uuid, ok, eager) ==
    Load(h, op, [op |-> "get_action_plan_by_uuid", key |-> uuid, eager |-> eager], ok,
         {u \in DOMAIN plans : u = uuid}, eager)

get_by_id(h, id, ok, eager) == GetByIdAs(h, "get_by_id", id, id, ok, eager)

\* Mutant of get_by_uuid: the row with id 1 is returned, whatever the uuid.
GetByUuidFirstRow(h, uuid, ok, eager) == GetByIdAs(h, "get_by_uuid", 1, uuid, ok, eager)

get_by_uuid(h, uuid, ok, eager) == GetByUuidAs(h, "get_by_uuid", uuid, ok, eager)

\* list(): every row, each hydrated; the caller keeps one element of the list.
list(h, ok, eager) ==
    Load(h, "list", [op |-> "get_action_plan_list", eager |-> eager], ok,
         DOMAIN plans, eager)

-----------------------------------------------------------------------------
(* Attribute assignment by the caller *)

\* A mapping with one more entry.
Assign(m, k, v) == [j \in (DOMAIN m) \cup {k} |-> IF j = k THEN v ELSE m[j]]

SetField(h, k, v) ==
    /\ CanStart(h)
    /\ Hydrated(h)
    /\ obj' = [obj EXCEPT ![h] = SetAttr(@, k, v)]
    /\ assigned' = [assigned EXCEPT ![h] = Assign(@, k, v)]
    /\ Done(h, "setattr", "ok", NoCall)
    /\ UNCHANGED <<plans, actions, indicators, audits, strategies, nextId,
                   pc, rel, listed, calls, wrote>>

-----------------------------------------------------------------------------
(* ActionPlan.save *)

\* Mutant of Saved: the changes are not reset after the update.
SavedKeepsChanges(o, row) == [FromDbObject(o, row, FALSE) EXCEPT !.changed = o.changed]

\* Mutant of Saved: the object is hydrated eagerly from the row.
SavedEager(o, row) ==
    LET loaded == FromDbObject(o, row, TRUE)
    IN  obj_reset_changes(obj_refresh(loaded, loaded))

\* The object after a successful save: hydrated from the row storage returned
\* (eager=False), refreshed from itself, changes reset.
Saved(o, row) ==
    LET loaded == FromDbObject(o, row, FALSE)
    IN  obj_reset_changes(obj_refresh(loaded, loaded))

\* Mutant of SaveUpdates: every column is sent, changed or not.
SaveUpdatesAll(o) == [k \in Columns |-> o.f[k]]

\* The delta save() hands to update_action_plan.
SaveUpdates(o) == obj_get_changes(o)

UpdateCall(o) ==
    [op |-> "update_action_plan", key |-> o.f.uuid, values |-> SaveUpdates(o)]

\* Mutant of save: an update that fails clears the changes of the object.
SaveForgetsOnFailure(h, ok) ==
    LET o == obj[h]
        uuid == o.f.uuid
        status == Outcome(ok, uuid \in DOMAIN plans)
    IN  /\ CanStart(h)
        /\ Hydrated(h)
        /\ Done(h, "save", status, UpdateCall(o))
        /\ IF status = "ok"
           THEN /\ plans' = [plans EXCEPT ![uuid] = UpdatedRow(@, SaveUpdates(o))]
                /\ obj' = [obj EXCEPT ![h] = Saved(o, plans'[uuid])]
                /\ assigned' = [assigned EXCEPT ![h] = <<>>]
           ELSE /\ obj' = [obj EXCEPT ![h] = obj_reset_changes(o)]
                /\ UNCHANGED <<plans, assigned>>
        /\ UNCHANGED <<actions, indicators, audits, strategies, nextId,
                       pc, rel, listed, calls, wrote>>

save(h, ok) ==
    LET o == obj[h]
        uuid == o.f.uuid
        status == Outcome(ok, uuid \in DOMAIN plans)
    IN  /\ CanStart(h)
        /\ Hydrated(h)
        /\ Done(h, "save", status, UpdateCall(o))
        /\ IF status = "ok"
           THEN /\ plans' = [plans EXCEPT ![uuid] = UpdatedRow(@, SaveUpdates(o))]
                /\ obj' = [obj EXCEPT ![h] = Saved(o, plans'[uuid])]
                /\ assigned' = [assigned EXCEPT ![h] = <<>>]
           ELSE UNCHANGED <<plans, obj, assigned>>
        /\ UNCHANGED <<actions, indicators, audits, strategies, nextId,
                       pc, rel, listed, calls, wrote>>

-----------------------------------------------------------------------------
(* ActionPlan.refresh *)

\* Mutant of Refreshed: the loaded row is not applied.
RefreshedNot(o, row, eager) == o

\* The object after a successful refresh(): the row loaded by uuid, overlaid on self.
Refreshed(o, row, eager) == obj_refresh(o, FromDbObject(NoObj, row, eager))

refresh(h, ok, eager) ==
    LET o == obj[h]
        uuid == o.f.uuid
        present == uuid \in DOMAIN plans /\ ~HydrateFails(plans[uuid], eager)
        status == Outcome(ok, present)
    IN  /\ CanStart(h)
        /\ Hydrated(h)
        /\ Done(h, "refresh", status,
                [op |-> "get_action_plan_by_uuid", key |-> uuid, eager |-> eager])
        /\ IF status = "ok"
           THEN obj' = [obj EXCEPT ![h] = Refreshed(o, plans[uuid], eager)]
           ELSE UNCHANGED obj
        /\ UNCHANGED <<plans, actions, indicators, audits, strategies, nextId,
                       pc, rel, listed, calls, wrote, assigned>>

-----------------------------------------------------------------------------
(* ActionPlan.get: dispatch on the shape of the key *)

RECURSIVE AllIn(_, _)
AllIn(key, S) == key = <<>> \/ (Head(key) \in S /\ AllIn(Tail(key), S))

RECURSIVE StripHyphens(_)
StripHyphens(key) ==
    IF key = <<>> THEN <<>>
    ELSE IF Head(key) = "-" THEN StripHyphens(Tail(key))
    ELSE <<Head(key)>> \o StripHyphens(Tail(key))

\* A canonical unsigned decimal: digits only, no leading zero unless it is "0".
Canonical(key) ==
    /\ key # <<>>
    /\ AllIn(key, Digits)
    /\ (Head(key) = "0" => Len(key) = 1)

\* utils.is_int_like(val): str(int(val)) == str(val)
is_int_like(key) ==
    \/ Canonical(key)
    \/ /\ key # <<>>
       /\ Head(key) = "-"
       /\ Canonical(Tail(key))
       /\ Tail(key) # <<"0">>

\* utils.is_uuid_like(val): with the hyphens removed, the hex digits of a UUID
is_uuid_like(key) ==
    LET hex == StripHyphens(key)
    IN  Len(hex) = UuidHexLen /\ AllIn(hex, HexChars)

DigitValue(c) == IF c = "1" THEN 1 ELSE 0

RECURSIVE Decimal(_)
Decimal(key) ==
    IF key = <<>> THEN 0
    ELSE 10 * Decimal(SubSeq(key, 1, Len(key) - 1)) + DigitValue(key[Len(key)])

\* the integer an int-like key denotes
IntOf(key) == IF Head(key) = "-" THEN 0 - Decimal(Tail(key)) ELSE Decimal(key)

\* Which lookup get() dispatches a key to.
Route(key) ==
    IF is_int_like(key) THEN "get_by_id"
    ELSE IF is_uuid_like(key) THEN "get_by_uuid"
    ELSE "InvalidIdentity"

get(h, key, ok, eager) ==
    CASE Route(key) = "get_by_id" -> GetByIdAs(h, "get", IntOf(key), key, ok, eager)
      [] Route(key) = "get_by_uuid" -> GetByUuidAs(h, "get", key, ok, eager)
      [] OTHER ->
            /\ CanStart(h)
            /\ ok
            /\ Done(h, "get", "InvalidIdentity", [op |-> "none", key |-> key])
            /\ UNCHANGED <<plans, actions, indicators, audits, strategies, nextId,
                           obj, pc, rel, listed, calls, wrote, assigned>>

-----------------------------------------------------------------------------
(* The constructor and ActionPlan.create *)

\* ActionPlan(context, **values): the given fields are set, and count as changed
New(h, values) ==
    /\ CanStart(h)
    /\ obj' = [obj EXCEPT ![h] = [NoObj EXCEPT !.f = values, !.changed = DOMAIN values]]
    /\ assigned' = [assigned EXCEPT ![h] = values]
    /\ Done(h, "new", "ok", NoCall)
    /\ UNCHANGED <<plans, actions, indicators, audits, strategies, nextId,
                   pc, rel, listed, calls, wrote>>

\* Mutant of CreateEager: create() hydrates lazily.
CreateEagerNot == FALSE

\* self._from_db_object(self, db_action_plan, eager=True)
CreateEager == TRUE

\* create(): the changes become a new row; the object is hydrated from it, eagerly.
\* A row with the same uuid makes storage refuse; a relationship that cannot be
\* loaded fails the call after the row was written.
create(h, ok) ==
    LET o == obj[h]
        values == obj_get_changes(o)
        call == [op |-> "create_action_plan", values |-> values]
    IN  /\ CanStart(h)
        /\ o.f # <<>>
        /\ ~Hydrated(h)
        /\ "uuid" \in DOMAIN values
        /\ nextId.plans <= MaxPlanId
        /\ IF ~ok THEN
              /\ Done(h, "create", "StorageFailure", call)
              /\ UNCHANGED <<plans, nextId, obj, assigned>>
           ELSE IF values.uuid \in DOMAIN plans THEN
              /\ Done(h, "create", "AlreadyExists", call)
              /\ UNCHANGED <<plans, nextId, obj, assigned>>
           ELSE
              LET row == CreatedRow(values, nextId.plans)
              IN  /\ plans' = [u \in (DOMAIN plans) \cup {values.uuid} |->
                                  IF u = values.uuid THEN row ELSE plans[u]]
                  /\ nextId' = [nextId EXCEPT !.plans = @ + 1]
                  /\ IF HydrateFails(row, CreateEager)
                     THEN /\ Done(h, "create", "NotFound", call)
                          /\ obj' = [obj EXCEPT ![h] = PartlyHydrated(o, row)]
                          /\ UNCHANGED assigned
                     ELSE /\ Done(h, "create", "ok", call)
                          /\ obj' = [obj EXCEPT ![h] = FromDbObject(o, row, CreateEager)]
                          /\ assigned' = [assigned EXCEPT ![h] = <<>>]
        /\ UNCHANGED <<actions, indicators, audits, strategies, pc, rel, listed, calls, wrote>>

-----------------------------------------------------------------------------
(* ActionPlan.soft_delete: one step per storage call *)

\* Whether the cascade has changed a table: it had, or this step did.
NoteWrite(h) ==
    wrote' = [wrote EXCEPT ![h] =
                 @ \/ [plans |-> plans', actions |-> actions', indicators |-> indicators'] # Tables]

Return(h, op, status, call) ==
    /\ pc' = [pc EXCEPT ![h] = Idle]
    /\ rel' = [rel EXCEPT ![h] = <<>>]
    /\ calls' = [calls EXCEPT ![h] = Append(@, call)]
    /\ Done(h, op, status, call)

Proceed(h, op, to, remaining, call) ==
    /\ pc' = [pc EXCEPT ![h] = to]
    /\ rel' = [rel EXCEPT ![h] = remaining]
    /\ calls' = [calls EXCEPT ![h] = Append(@, call)]
    /\ Done(h, op, "running", call)

\* Mutant of SdListActions: the actions are listed without the filter.
SdListActionsAll(h, ok) ==
    LET uuid == obj[h].f.uuid
        call == [op |-> "get_action_list", key |-> uuid]
        found == DOMAIN actions
    IN  /\ CanStart(h)
        /\ Hydrated(h)
        /\ wrote' = [wrote EXCEPT ![h] = FALSE]
        /\ listed' = [listed EXCEPT ![h] = [actions |-> IF ok THEN found ELSE {},
                                            indicators |-> {}]]
        /\ IF ok
           THEN /\ pc' = [pc EXCEPT ![h] = "sd_actions"]
                /\ rel' = [rel EXCEPT ![h] = SortedSeq(found)]
                /\ Done(h, "soft_delete", "running", call)
           ELSE /\ Done(h, "soft_delete", "StorageFailure", call)
                /\ UNCHANGED <<pc, rel>>
        /\ calls' = [calls EXCEPT ![h] = <<call>>]
        /\ UNCHANGED <<plans, actions, indicators, audits, strategies, nextId, obj, assigned>>

\* objects.Action.list(filters={"action_plan_uuid": self.uuid})
SdListActions(h, ok) ==
    LET uuid == obj[h].f.uuid
        call == [op |-> "get_action_list", key |-> uuid]
        found == RelatedIds(actions, uuid)
    IN  /\ CanStart(h)
        /\ Hydrated(h)
        /\ wrote' = [wrote EXCEPT ![h] = FALSE]
        /\ listed' = [listed EXCEPT ![h] = [actions |-> IF ok THEN found ELSE {},
                                            indicators |-> {}]]
        /\ IF ok
           THEN /\ pc' = [pc EXCEPT ![h] = "sd_actions"]
                /\ rel' = [rel EXCEPT ![h] = SortedSeq(found)]
                /\ Done(h, "soft_delete", "running", call)
           ELSE /\ Done(h, "soft_delete", "StorageFailure", call)
                /\ UNCHANGED <<pc, rel>>
        /\ calls' = [calls EXCEPT ![h] = <<call>>]
        /\ UNCHANGED <<plans, actions, indicators, audits, strategies, nextId, obj, assigned>>

\* Mutant of SdAction: the loop stops after the first related action.
SdActionOnlyFirst(h, ok) ==
    LET a == Head(rel[h])
        call == [op |-> "soft_delete_action", key |-> a]
        status == Outcome(ok, a \in DOMAIN actions)
    IN  /\ pc[h] = "sd_actions"
        /\ rel[h] # <<>>
        /\ IF status = "ok"
           THEN /\ actions' = [actions EXCEPT ![a].deleted = TRUE]
                /\ Proceed(h, "soft_delete", "sd_actions", <<>>, call)
           ELSE /\ Return(h, "soft_delete", status, call)
                /\ UNCHANGED actions
        /\ UNCHANGED <<plans, indicators, audits, strategies, nextId,
                       obj, listed, assigned>>
        /\ NoteWrite(h)

\* related_action.soft_delete(), for the next element of related_actions
SdAction(h, ok) ==
    LET a == Head(rel[h])
        call == [op |-> "soft_delete_action", key |-> a]
        status == Outcome(ok, a \in DOMAIN actions)
    IN  /\ pc[h] = "sd_actions"
        /\ rel[h] # <<>>
        /\ IF status = "ok"
           THEN /\ actions' = [actions EXCEPT ![a].deleted = TRUE]
                /\ Proceed(h, "soft_delete", "sd_actions", Tail(rel[h]), call)
           ELSE /\ Return(h, "soft_delete", status, call)
                /\ UNCHANGED actions
        /\ UNCHANGED <<plans, indicators, audits, strategies, nextId,
                       obj, listed, assigned>>
        /\ NoteWrite(h)

\* objects.EfficacyIndicator.list(filters={"action_plan_uuid": self.uuid})
SdListIndicators(h, ok) ==
    LET uuid == obj[h].f.uuid
        call == [op |-> "get_efficacy_indicator_list", key |-> uuid]
        found == RelatedIds(indicators, uuid)
    IN  /\ pc[h] = "sd_actions"
        /\ rel[h] = <<>>
        /\ IF ok
           THEN /\ listed' = [listed EXCEPT ![h].indicators = found]
                /\ Proceed(h, "soft_delete", "sd_indicators", SortedSeq(found), call)
           ELSE /\ Return(h, "soft_delete", "StorageFailure", call)
                /\ UNCHANGED listed
        /\ UNCHANGED <<plans, actions, indicators, audits, strategies, nextId,
                       obj, assigned>>
        /\ NoteWrite(h)

\* related_efficacy_indicator.soft_delete(), for the next element of the list
SdIndicator(h, ok) ==
    LET e == Head(rel[h])
        call == [op |-> "soft_delete_efficacy_indicator", key |-> e]
        status == Outcome(ok, e \in DOMAIN indicators)
    IN  /\ pc[h] = "sd_indicators"
        /\ rel[h] # <<>>
        /\ IF status = "ok"
           THEN /\ indicators' = [indicators EXCEPT ![e].deleted = TRUE]
                /\ Proceed(h, "soft_delete", "sd_indicators", Tail(rel[h]), call)
           ELSE /\ Return(h, "soft_delete", status, call)
                /\ UNCHANGED indicators
        /\ UNCHANGED <<plans, actions, audits, strategies, nextId,
                       obj, listed, assigned>>
        /\ NoteWrite(h)

\* Mutant of MarkDeleted: the state is not assigned.
MarkDeletedNot(o) == o

\* self.state = State.DELETED
MarkDeleted(o) == SetAttr(o, "state", DELETED)

\* Mutant of SdSaveReady: the plan is saved while related indicators remain.
SdSaveReadyEarly(h) == pc[h] = "sd_indicators"

\* The cascades are over: both loops have run to their end.
SdSaveReady(h) == pc[h] = "sd_indicators" /\ rel[h] = <<>>

\* self.state = State.DELETED; self.save()
SdSave(h, ok) ==
    LET o == MarkDeleted(obj[h])
        uuid == o.f.uuid
        status == Outcome(ok, uuid \in DOMAIN plans)
    IN  /\ SdSaveReady(h)
        /\ IF status = "ok"
           THEN /\ plans' = [plans EXCEPT ![uuid] = UpdatedRow(@, SaveUpdates(o))]
                /\ obj' = [obj EXCEPT ![h] = Saved(o, plans'[uuid])]
                /\ assigned' = [assigned EXCEPT ![h] = <<>>]
                /\ Proceed(h, "soft_delete", "sd_row", <<>>, UpdateCall(o))
           ELSE /\ obj' = [obj EXCEPT ![h] = o]
                /\ assigned' = [assigned EXCEPT ![h] = Assign(@, "state", DELETED)]
                /\ Return(h, "soft_delete", status, UpdateCall(o))
                /\ UNCHANGED plans
        /\ UNCHANGED <<actions, indicators, audits, strategies, nextId, listed>>
        /\ NoteWrite(h)

\* Mutant of SdRow: the row is soft-deleted without the save() before it.
SdRowSkipsSave(h, ok) ==
    LET uuid == obj[h].f.uuid
        call == [op |-> "soft_delete_action_plan", key |-> uuid]
        status == Outcome(ok, uuid \in DOMAIN plans)
    IN  /\ (pc[h] = "sd_row" \/ SdSaveReady(h))
        /\ Return(h, "soft_delete", status, call)
        /\ IF status = "ok"
           THEN /\ plans' = [plans EXCEPT ![uuid] = SoftDeletedRow(@)]
                /\ obj' = [obj EXCEPT ![h] =
                              obj_refresh(@, FromDbObject(NoObj, plans'[uuid], FALSE))]
           ELSE UNCHANGED <<plans, obj>>
        /\ UNCHANGED <<actions, indicators, audits, strategies, nextId,
                       listed, assigned>>
        /\ NoteWrite(h)

\* db_obj = self.dbapi.soft_delete_action_plan(self.uuid); self.obj_refresh(obj)
SdRow(h, ok) ==
    LET uuid == obj[h].f.uuid
        call == [op |-> "soft_delete_action_plan", key |-> uuid]
        status == Outcome(ok, uuid \in DOMAIN plans)
    IN  /\ pc[h] = "sd_row"
        /\ Return(h, "soft_delete", status, call)
        /\ IF status = "ok"
           THEN /\ plans' = [plans EXCEPT ![uuid] = SoftDeletedRow(@)]
                /\ obj' = [obj EXCEPT ![h] =
                              obj_refresh(@, FromDbObject(NoObj, plans'[uuid], FALSE))]
           ELSE UNCHANGED <<plans, obj>>
        /\ UNCHANGED <<actions, indicators, audits, strategies, nextId,
                       listed, assigned>>
        /\ NoteWrite(h)

-----------------------------------------------------------------------------
(* ActionPlan.destroy: one step per storage call *)

\* objects.EfficacyIndicator.list(filters={"action_plan_uuid": self.uuid})
DsListIndicators(h, ok) ==
    LET uuid == obj[h].f.uuid
        call == [op |-> "get_efficacy_indicator_list", key |-> uuid]
        found == RelatedIds(indicators, uuid)
    IN  /\ CanStart(h)
        /\ Hydrated(h)
        /\ wrote' = [wrote EXCEPT ![h] = FALSE]
        /\ listed' = [listed EXCEPT ![h] = [actions |-> {},
                                            indicators |-> IF ok THEN found ELSE {}]]
        /\ IF ok
           THEN /\ pc' = [pc EXCEPT ![h] = "ds_indicators"]
                /\ rel' = [rel EXCEPT ![h] = SortedSeq(found)]
                /\ Done(h, "destroy", "running", call)
           ELSE /\ Done(h, "destroy", "StorageFailure", call)
                /\ UNCHANGED <<pc, rel>>
        /\ calls' = [calls EXCEPT ![h] = <<call>>]
        /\ UNCHANGED <<plans, actions, indicators, audits, strategies, nextId, obj, assigned>>

\* Mutant of DsIndicator: the indicator is soft-deleted, not destroyed.
DsIndicatorSoft(h, ok) ==
    LET e == Head(rel[h])
        call == [op |-> "soft_delete_efficacy_indicator", key |-> e]
        status == Outcome(ok, e \in DOMAIN indicators)
    IN  /\ pc[h] = "ds_indicators"
        /\ rel[h] # <<>>
        /\ IF status = "ok"
           THEN /\ indicators' = [indicators EXCEPT ![e].deleted = TRUE]
                /\ Proceed(h, "destroy", "ds_indicators", Tail(rel[h]), call)
           ELSE /\ Return(h, "destroy", status, call)
                /\ UNCHANGED indicators
        /\ UNCHANGED <<plans, actions, audits, strategies, nextId,
                       obj, listed, assigned>>
        /\ NoteWrite(h)

\* related_efficacy_indicator.destroy(), for the next element of the list
DsIndicator(h, ok) ==
    LET e == Head(rel[h])
        call == [op |-> "destroy_efficacy_indicator", key |-> e]
        status == Outcome(ok, e \in DOMAIN indicators)
    IN  /\ pc[h] = "ds_indicators"
        /\ rel[h] # <<>>
        /\ IF status = "ok"
           THEN /\ indicators' = Without(indicators, e)
                /\ Proceed(h, "destroy", "ds_indicators", Tail(rel[h]), call)
           ELSE /\ Return(h, "destroy", status, call)
                /\ UNCHANGED indicators
        /\ UNCHANGED <<plans, actions, audits, strategies, nextId,
                       obj, listed, assigned>>
        /\ NoteWrite(h)

\* Mutant of DsRow: the row is destroyed while related indicators remain.
DsRowEarly(h, ok) ==
    LET uuid == obj[h].f.uuid
        call == [op |-> "destroy_action_plan", key |-> uuid]
        status == Outcome(ok, uuid \in DOMAIN plans)
    IN  /\ pc[h] = "ds_indicators"
        /\ Return(h, "destroy", status, call)
        /\ IF status = "ok"
           THEN /\ plans' = Without(plans, uuid)
                /\ obj' = [obj EXCEPT ![h] = obj_reset_changes(@)]
                /\ assigned' = [assigned EXCEPT ![h] = <<>>]
           ELSE UNCHANGED <<plans, obj, assigned>>
        /\ UNCHANGED <<actions, indicators, audits, strategies, nextId, listed>>
        /\ NoteWrite(h)

\* self.dbapi.destroy_action_plan(self.uuid); self.obj_reset_changes()
DsRow(h, ok) ==
    LET uuid == obj[h].f.uuid
        call == [op |-> "destroy_action_plan", key |-> uuid]
        status == Outcome(ok, uuid \in DOMAIN plans)
    IN  /\ pc[h] = "ds_indicators"
        /\ rel[h] = <<>>
        /\ Return(h, "destroy", status, call)
        /\ IF status = "ok"
           THEN /\ plans' = Without(plans, uuid)
                /\ obj' = [obj EXCEPT ![h] = obj_reset_changes(@)]
                /\ assigned' = [assigned EXCEPT ![h] = <<>>]
           ELSE UNCHANGED <<plans, obj, assigned>>
        /\ UNCHANGED <<actions, indicators, audits, strategies, nextId, listed>>
        /\ NoteWrite(h)

-----------------------------------------------------------------------------
(* Other services writing the tables of the related entities *)

\* An Audit or a Strategy is removed while plans still refer to it.
DestroyAudit(a) ==
    /\ a \in audits
    /\ audits' = audits \ {a}
    /\ Done("service", "destroy_audit", "ok", NoCall)
    /\ UNCHANGED <<plans, actions, indicators, strategies, nextId,
                   obj, pc, rel, listed, calls, wrote, assigned>>

DestroyStrategy(s) ==
    /\ s \in strategies
    /\ strategies' = strategies \ {s}
    /\ Done("service", "destroy_strategy", "ok", NoCall)
    /\ UNCHANGED <<plans, actions, indicators, audits, nextId,
                   obj, pc, rel, listed, calls, wrote, assigned>>

CreateAction(uuid) ==
    LET a == nextId.actions
    IN  /\ a <= MaxActions
        /\ actions' = [i \in (DOMAIN actions) \cup {a} |->
                          IF i = a THEN [plan |-> uuid, deleted |-> FALSE] ELSE actions[i]]
        /\ nextId' = [nextId EXCEPT !.actions = @ + 1]
        /\ Done("service", "create_action", "ok", NoCall)
        /\ UNCHANGED <<plans, indicators, audits, strategies,
                       obj, pc, rel, listed, calls, wrote, assigned>>

CreateIndicator(uuid) ==
    LET e == nextId.indicators
    IN  /\ e <= MaxIndicators
        /\ indicators' = [i \in (DOMAIN indicators) \cup {e} |->
                             IF i = e THEN [plan |-> uuid, deleted |-> FALSE]
                             ELSE indicators[i]]
        /\ nextId' = [nextId EXCEPT !.indicators = @ + 1]
        /\ Done("service", "create_efficacy_indicator", "ok", NoCall)
        /\ UNCHANGED <<plans, actions, audits, strategies,
                       obj, pc, rel, listed, calls, wrote, assigned>>

-----------------------------------------------------------------------------

PlanRow(id, uuid, st) ==
    [id |-> id, uuid |-> uuid, audit_id |-> 1, strategy_id |-> 1,
     first_action_id |-> NullId, state |-> st, global_efficacy |-> None,
     deleted |-> FALSE]

InitCallers ==
    /\ obj = [h \in Handles |-> NoObj]
    /\ pc = [h \in Handles |-> Idle]
    /\ rel = [h \in Handles |-> <<>>]
    /\ listed = [h \in Handles |-> NoneListed]
    /\ calls = [h \in Handles |-> <<>>]
    /\ wrote = [h \in Handles |-> FALSE]
    /\ assigned = [h \in Handles |-> <<>>]
    /\ last = [h |-> "none", op |-> "none", status |-> "none", call |-> NoCall,
               twice |-> FALSE]

\* The plan the caller works on, and another plan.
ThePlan == <<"a", "0">>

\* Two plans and no dependents yet.
InitCascade ==
    /\ plans = [u \in Uuids |-> PlanRow(IF u = ThePlan THEN 1 ELSE 2, u, PENDING)]
    /\ actions = <<>>
    /\ indicators = <<>>
    /\ audits = {1}
    /\ strategies = {1}
    /\ nextId = [plans |-> 3, actions |-> 1, indicators |-> 1]
    /\ InitCallers

Cascade(h, ok) ==
    \/ SdListActions(h, ok)
    \/ SdAction(h, ok)
    \/ SdListIndicators(h, ok)
    \/ SdIndicator(h, ok)
    \/ SdSave(h, ok)
    \/ SdRow(h, ok)
    \/ DsListIndicators(h, ok)
    \/ DsIndicator(h, ok)
    \/ DsRow(h, ok)

NextCascade ==
    \/ get_by_uuid("h1", ThePlan, TRUE, FALSE)
    \/ SetField("h1", "state", "BOGUS")
    \/ \E ok \in BOOLEAN : Cascade("h1", ok)
    \/ \E u \in Uuids : CreateAction(u)
    \/ \E u \in Uuids : CreateIndicator(u)

SpecCascade == InitCascade /\ [][NextCascade]_vars

\* One plan in any lifecycle state (or none), with dependents; no other writer.
InitSoftDelete ==
    /\ \E st \in State \cup {None} :
          plans = [u \in Uuids |->
                      IF u = ThePlan THEN PlanRow(1, u, st) ELSE PlanRow(2, u, PENDING)]
    /\ actions = [i \in ActionIds |->
                     [plan |-> IF i = 1 THEN ThePlan ELSE <<"1", "1">>, deleted |-> FALSE]]
    /\ indicators = [i \in IndicatorIds |-> [plan |-> ThePlan, deleted |-> FALSE]]
    /\ audits = {1}
    /\ strategies = {1}
    /\ nextId = [plans |-> 3, actions |-> MaxActions + 1, indicators |-> MaxIndicators + 1]
    /\ InitCallers

NextSoftDelete ==
    \/ get_by_uuid("h1", ThePlan, TRUE, FALSE)
    \/ \E v \in StateInputs : SetField("h1", "state", v)
    \/ \E ok \in BOOLEAN :
          \/ SdListActions("h1", ok)
          \/ SdAction("h1", ok)
          \/ SdListIndicators("h1", ok)
          \/ SdIndicator("h1", ok)
          \/ SdSave("h1", ok)
          \/ SdRow("h1", ok)

SpecSoftDelete == InitSoftDelete /\ [][NextSoftDelete]_vars

-----------------------------------------------------------------------------
(* Properties of the cascades *)

Ended(h, op, status) == last.h = h /\ last.op = op /\ last.status = status

Failures == {"StorageFailure", "NotFound"}

DependentCalls == {"soft_delete_action", "soft_delete_efficacy_indicator"}

\* The positions of the log at which the plan's own save() was issued.
SavePositions(log) == {i \in 1..Len(log) : log[i].op = "update_action_plan"}

CalledBefore(log, i, op, key) ==
    \E j \in 1..(i - 1) : log[j].op = op /\ log[j].key = key

\* C1: once soft_delete() has issued the save() that persists state=DELETED,
\* every related Action and EfficacyIndicator it listed has had its soft-delete
\* call, earlier in the order of calls, and is soft-deleted; no dependent
\* soft-delete call follows the save().
C1_DependentsBeforeSave ==
    \A h \in Handles :
        \A i \in SavePositions(calls[h]) :
            /\ \A a \in listed[h].actions :
                  /\ CalledBefore(calls[h], i, "soft_delete_action", a)
                  /\ a \in DOMAIN actions /\ actions[a].deleted
            /\ \A e \in listed[h].indicators :
                  /\ CalledBefore(calls[h], i, "soft_delete_efficacy_indicator", e)
                  /\ e \in DOMAIN indicators /\ indicators[e].deleted
            /\ \A j \in (i + 1)..Len(calls[h]) : calls[h][j].op \notin DependentCalls

\* A soft_delete() that succeeded on a plan with two related actions and a
\* related indicator.
C1_Witness ==
    /\ Ended("h1", "soft_delete", "ok")
    /\ Cardinality(listed["h1"].actions) = 2
    /\ Cardinality(listed["h1"].indicators) >= 1

\* C2: a cascade (soft_delete or destroy) that ends in an error has changed no
\* table: storage is as it was when the cascade started.
C2_FailedCascadeCommitsNothing ==
    \A h \in Handles :
        (last.h = h /\ last.op \in {"soft_delete", "destroy"} /\ last.status \in Failures)
            => ~wrote[h]

\* C3: a destroy() that succeeded has removed the plan row and every related
\* EfficacyIndicator it listed, and no step of destroy() changes the actions table.
C3_DestroyState ==
    \A h \in Handles :
        Ended(h, "destroy", "ok") =>
            /\ obj[h].f.uuid \notin DOMAIN plans
            /\ \A e \in listed[h].indicators : e \notin DOMAIN indicators

C4_SoftDeleteForcesDeleted ==
    \A h \in Handles :
        Ended(h, "soft_delete", "ok") =>
            /\ plans[obj[h].f.uuid].state = DELETED
            /\ obj[h].f.state = DELETED

C4_Witness ==
    /\ Ended("h1", "soft_delete", "ok")
    /\ plans[ThePlan].deleted
    /\ obj["h1"].f.state = DELETED

\* C6 as claimed: while soft_delete() runs and the plan reads as DELETED, every
\* related Action and EfficacyIndicator reads as soft-deleted.
C6_NoActiveChildOfDeletedPlan ==
    \A h \in Handles :
        (pc[h] = "sd_row" /\ obj[h].f.uuid \in DOMAIN plans
                          /\ plans[obj[h].f.uuid].state = DELETED) =>
            /\ \A a \in RelatedIds(actions, obj[h].f.uuid) : actions[a].deleted
            /\ \A e \in RelatedIds(indicators, obj[h].f.uuid) : indicators[e].deleted

\* C6 as amended: while soft_delete() runs and the plan reads as DELETED, a
\* related dependent that is not soft-deleted is one the cascade never listed:
\* it was created after the cascade listed its kind.
C6_ActiveChildWasCreatedLater ==
    \A h \in Handles :
        (pc[h] = "sd_row" /\ obj[h].f.uuid \in DOMAIN plans
                          /\ plans[obj[h].f.uuid].state = DELETED) =>
            /\ \A a \in RelatedIds(actions, obj[h].f.uuid) :
                  ~actions[a].deleted => a \notin listed[h].actions
            /\ \A e \in RelatedIds(indicators, obj[h].f.uuid) :
                  ~indicators[e].deleted => e \notin listed[h].indicators

\* The plan was saved as DELETED after dependents of both kinds were soft-deleted.
C6_Witness ==
    /\ pc["h1"] = "sd_row"
    /\ plans[ThePlan].state = DELETED
    /\ listed["h1"].actions # {}
    /\ listed["h1"].indicators # {}

-----------------------------------------------------------------------------

(* The record life cycle: load, assign, save, refresh, by two callers *)

Init ==
    /\ plans = [u \in {ThePlan} |-> PlanRow(1, u, RECOMMENDED)]
    /\ actions = <<>>
    /\ indicators = <<>>
    /\ audits = {1}
    /\ strategies = {1}
    /\ nextId = [plans |-> 2, actions |-> 1, indicators |-> 1]
    /\ InitCallers

Assignments(h) ==
    \/ \E v \in {PENDING, "BOGUS"} : SetField(h, "state", v)
    \/ \E v \in {None, "ge"} : SetField(h, "global_efficacy", v)

Next ==
    \/ \E h \in Handles, ok \in BOOLEAN : get_by_uuid(h, ThePlan, ok, FALSE)
    \/ \E h \in Handles : Assignments(h)
    \/ \E h \in Handles, ok \in BOOLEAN : save(h, ok)
    \/ \E h \in Handles, ok \in BOOLEAN, eager \in BOOLEAN : refresh(h, ok, eager)

Spec == Init /\ [][Next]_vars

\* What a caller may hand to the constructor before create().
NewInputs ==
    {[uuid |-> <<"1", "1">>, audit_id |-> 1, strategy_id |-> 1, state |-> RECOMMENDED],
     [uuid |-> <<"1", "1">>, audit_id |-> 1, strategy_id |-> 1, state |-> "BOGUS"],
     [uuid |-> ThePlan, audit_id |-> 1, strategy_id |-> 1, state |-> RECOMMENDED],
     [uuid |-> <<"1", "1">>, audit_id |-> 1, strategy_id |-> 1, state |-> PENDING,
      first_action_id |-> 1, global_efficacy |-> "ge"]}

\* Hydration, assignment and save by one caller, without refresh.
NextDelta ==
    \/ \E ok \in BOOLEAN, eager \in BOOLEAN :
          \/ \E u \in Uuids : get_by_uuid("h1", u, ok, eager)
          \/ \E id \in 1..2 : get_by_id("h1", id, ok, eager)
          \/ list("h1", ok, eager)
    \/ \E values \in NewInputs : New("h1", values)
    \/ \E ok \in BOOLEAN : create("h1", ok)
    \/ Assignments("h1")
    \/ \E ok \in BOOLEAN : save("h1", ok)

SpecDelta == Init /\ [][NextDelta]_vars

-----------------------------------------------------------------------------
(* ActionPlan.get over every key *)

Keys == UNION {[1..n -> KeyChars] : n \in 0..MaxKeyLen}

\* Two plans; the uuid of the second is all decimal digits.
InitGet ==
    /\ plans = [u \in Uuids |-> PlanRow(IF u = ThePlan THEN 1 ELSE 2, u, PENDING)]
    /\ actions = <<>>
    /\ indicators = <<>>
    /\ audits = {1}
    /\ strategies = {1}
    /\ nextId = [plans |-> 3, actions |-> 1, indicators |-> 1]
    /\ InitCallers

NextGet == \E key \in Keys, ok \in BOOLEAN, eager \in BOOLEAN : get("h1", key, ok, eager)

SpecGet == InitGet /\ [][NextGet]_vars

-----------------------------------------------------------------------------
(* Properties of the record *)

\* C5: the state of every persisted row is one of the seven lifecycle states.
C5_PersistedStateIsLifecycleState ==
    \A u \in DOMAIN plans : plans[u].state \in State

\* C7: get(key) looks an integer-like key up by id, a UUID-like key by uuid,
\* and for any other key makes no lookup and fails with InvalidIdentity
\* carrying the key.
C7_GetRoutesByShape ==
    last.op = "get" =>
        LET key == last.call.key
        IN  /\ is_int_like(key) => last.call.op = "get_action_plan_by_id"
            /\ is_uuid_like(key) => last.call.op = "get_action_plan_by_uuid"
            /\ (~is_int_like(key) /\ ~is_uuid_like(key)) =>
                  (last.call.op = "none" /\ last.status = "InvalidIdentity")

\* C8: without refresh, the changes of an object are exactly the fields its
\* caller assigned since it was hydrated (by get_by_id, get_by_uuid, list or
\* create) or saved, each with the value assigned last: none right after
\* hydration.
C8_ChangesAreTheAssignments ==
    \A h \in Handles : obj_get_changes(obj[h]) = assigned[h]

\* save() hands exactly those fields and values to update_action_plan, and a
\* column that is not among them keeps its value in the row.
C8_SaveSendsTheAssignments ==
    \A h \in Handles :
        (last'.h = h /\ last'.op = "save") =>
            /\ last'.call.values = assigned[h]
            /\ last'.status = "ok" =>
                  \A k \in Columns \ DOMAIN assigned[h] :
                      plans'[obj[h].f.uuid][k] = plans[obj[h].f.uuid][k]

C8_ExactDelta ==
    /\ []C8_ChangesAreTheAssignments
    /\ [][C8_SaveSendsTheAssignments]_vars

\* A save() that sent two assigned fields, state and global_efficacy.
C8_Witness ==
    /\ Ended("h1", "save", "ok")
    /\ DOMAIN last.call.values = {"state", "global_efficacy"}

\* C9: after a save() or a refresh() that succeeded, obj_get_changes() is empty.
C9_NoChangesAfterSaveOrRefresh ==
    \A h \in Handles :
        (Ended(h, "save", "ok") \/ Ended(h, "refresh", "ok")) => obj[h].changed = {}

\* C10: after a refresh() that succeeded every column of the object equals the
\* column of the row stored under its uuid, and refresh() writes no table.
C10_RefreshedEqualsRow ==
    \A h \in Handles :
        Ended(h, "refresh", "ok") =>
            \A k \in Columns : obj[h].f[k] = plans[obj[h].f.uuid][k]

C10_RefreshDiscardsEdits ==
    /\ []C10_RefreshedEqualsRow
    /\ [][last'.op = "refresh" => (plans' = plans /\ actions' = actions
                                                  /\ indicators' = indicators)]_vars

\* A refresh() that succeeded on an object whose caller had assigned a state
\* that the row does not have.
C10_Witness ==
    /\ Ended("h1", "refresh", "ok")
    /\ "state" \in DOMAIN assigned["h1"]
    /\ assigned["h1"].state # plans[ThePlan].state

-----------------------------------------------------------------------------
(* Properties of save() *)

\* C11: a save() that directly follows a successful save() of the same object,
\* nothing assigned in between, hands an empty delta to update_action_plan,
\* ends without an error of its own (it succeeds unless storage itself fails),
\* and leaves the persisted rows as the first save() left them.
C11_SecondSave ==
    \A h \in Handles :
        (Ended(h, "save", "ok") /\ last'.h = h /\ last'.op = "save") =>
            /\ last'.call.values = <<>>
            /\ last'.status \in {"ok", "StorageFailure"}
            /\ last'.status = "ok" => plans' = plans

C11_SaveTwiceIsNoOp == [][C11_SecondSave]_vars

\* A second save() in a row that succeeded, after the first persisted a state.
C11_Witness ==
    /\ Ended("h1", "save", "ok")
    /\ last.twice
    /\ last.call.values = <<>>
    /\ plans[ThePlan].state = PENDING

\* C17: a save() whose update_action_plan call fails issues that one call and
\* ends with the failure; the fields and the changes of the object, and the
\* rows, are as they were before the call, and a save() that follows hands the
\* same delta to storage again.
C17_FailedSaveStep ==
    \A h \in Handles :
        (last'.h = h /\ last'.op = "save" /\ last'.status \in Failures) =>
            /\ last'.call = UpdateCall(obj[h])
            /\ obj' = obj
            /\ plans' = plans

C17_NextSaveResends ==
    (last.op = "save" /\ last.status \in Failures
                      /\ last'.h = last.h /\ last'.op = "save") =>
        last'.call = last.call

C17_DeltaKept ==
    \A h \in Handles :
        (last.h = h /\ last.op = "save" /\ last.status \in Failures) =>
            obj_get_changes(obj[h]) = last.call.values

C17_FailedSaveKeepsDelta ==
    /\ []C17_DeltaKept
    /\ [][C17_FailedSaveStep /\ C17_NextSaveResends]_vars

\* A save() that failed with two fields assigned and not yet persisted.
C17_Witness ==
    /\ Ended("h1", "save", "StorageFailure")
    /\ DOMAIN last.call.values = {"state", "global_efficacy"}
    /\ obj["h1"].changed = {"state", "global_efficacy"}
    /\ plans[ThePlan].state = RECOMMENDED

-----------------------------------------------------------------------------
(* Eager and lazy hydration while Audits and Strategies come and go *)

AuditIds == {1, 2}

\* One plan of audit 1 and strategy 1; two audits, one strategy.
InitEager ==
    /\ plans = [u \in {ThePlan} |-> PlanRow(1, u, RECOMMENDED)]
    /\ actions = <<>>
    /\ indicators = <<>>
    /\ audits = AuditIds
    /\ strategies = {1}
    /\ nextId = [plans |-> 2, actions |-> 1, indicators |-> 1]
    /\ InitCallers

EagerInputs ==
    {[uuid |-> <<"1", "1">>, audit_id |-> 2, strategy_id |-> 1, state |-> RECOMMENDED]}

NextEager ==
    \/ \E ok \in BOOLEAN, eager \in BOOLEAN :
          \/ get_by_uuid("h1", ThePlan, ok, eager)
          \/ get_by_id("h1", 1, ok, eager)
          \/ list("h1", ok, eager)
          \/ \E key \in {<<"1">>, ThePlan} : get("h1", key, ok, eager)
          \/ refresh("h1", ok, eager)
    \/ \E values \in EagerInputs : New("h1", values)
    \/ \E ok \in BOOLEAN : create("h1", ok)
    \/ \E a \in AuditIds : SetField("h1", "audit_id", a)
    \/ \E ok \in BOOLEAN : save("h1", ok)
    \/ \E a \in AuditIds : DestroyAudit(a)
    \/ DestroyStrategy(1)

SpecEager == InitEager /\ [][NextEager]_vars

-----------------------------------------------------------------------------
(* Properties of create() *)

\* C12: a create() that succeeded leaves in the object every value it was
\* given, and a get_by_uuid() of the new uuid that directly follows returns an
\* object whose every column equals the column of the created object.
C12_CreatedKeepsValues ==
    \A h \in Handles :
        (last'.h = h /\ last'.op = "create" /\ last'.status = "ok") =>
            \A k \in DOMAIN last'.call.values : obj'[h].f[k] = last'.call.values[k]

C12_ReadBack ==
    \A h \in Handles :
        (Ended(h, "create", "ok") /\ last'.op = "get_by_uuid" /\ last'.status = "ok"
                                  /\ last'.call.key = obj[h].f.uuid) =>
            \A k \in Columns : obj'[last'.h].f[k] = obj[h].f[k]

C12_RoundTrip == [][C12_CreatedKeepsValues /\ C12_ReadBack]_vars

\* get_by_uuid() returned the plan that create() made, with the
\* first_action_id and the state that only create() was given.
C12_Witness ==
    /\ Ended("h1", "get_by_uuid", "ok")
    /\ obj["h1"].f.uuid = <<"1", "1">>
    /\ obj["h1"].f.first_action_id = 1
    /\ obj["h1"].f.id = 2

\* C13: after a create() that succeeded the relationships audit and strategy
\* of the object are set, to the Audit and the Strategy that audit_id and
\* strategy_id refer to, and both exist.
C13_CreatePopulatesRelations ==
    \A h \in Handles :
        Ended(h, "create", "ok") =>
            /\ obj[h].audit # NullId
            /\ obj[h].audit = obj[h].f.audit_id
            /\ obj[h].audit \in audits
            /\ obj[h].strategy # NullId
            /\ obj[h].strategy = obj[h].f.strategy_id
            /\ obj[h].strategy \in strategies

\* A create() that succeeded for a plan of audit 2 and strategy 1.
C13_Witness ==
    /\ Ended("h1", "create", "ok")
    /\ obj["h1"].audit = 2
    /\ obj["h1"].strategy = 1

-----------------------------------------------------------------------------
(* Properties of the relationships *)

EagerLoads == {"get", "get_by_id", "get_by_uuid", "list", "refresh"}

HydratedEagerly(h) ==
    /\ last.h = h
    /\ \/ last.op = "create"
       \/ last.op \in EagerLoads /\ last.call.op # "none" /\ last.call.eager

\* C14: an eager hydration (create(), or get, get_by_id, get_by_uuid, list or
\* refresh with eager=True) succeeds only if the Audit and the Strategy the row
\* refers to exist; when one is gone the operation ends in an error, and the
\* object handed out by a lookup or by create() has both relationships set.
C14_MissingRelationIsAnError ==
    \A h \in Handles :
        (HydratedEagerly(h) /\ last.status = "ok") =>
            /\ obj[h].f.audit_id # NullId =>
                  /\ obj[h].f.audit_id \in audits
                  /\ last.op # "refresh" => obj[h].audit = obj[h].f.audit_id
            /\ obj[h].f.strategy_id # NullId =>
                  /\ obj[h].f.strategy_id \in strategies
                  /\ last.op # "refresh" => obj[h].strategy = obj[h].f.strategy_id

\* An eager get_by_uuid() of a row that is there ended in NotFound, the Audit
\* of the row being gone.
C14_Witness ==
    /\ Ended("h1", "get_by_uuid", "NotFound")
    /\ last.call.eager
    /\ last.call.key \in DOMAIN plans
    /\ plans[last.call.key].audit_id \notin audits
    /\ plans[last.call.key].strategy_id \in strategies

\* C20: a save() that succeeded leaves the relationships audit and strategy of
\* the object as they were and every column equal to the row storage returned;
\* an assignment or a lazy refresh() leaves the relationships alone too, so
\* they keep the entities materialized earlier.
C20_SaveStep ==
    \A h \in Handles :
        (last'.h = h /\ last'.op = "save" /\ last'.status = "ok") =>
            /\ obj'[h].audit = obj[h].audit
            /\ obj'[h].strategy = obj[h].strategy
            /\ \A k \in Columns : obj'[h].f[k] = plans'[obj[h].f.uuid][k]

C20_StaleUntilEager ==
    \A h \in Handles :
        (last'.h = h /\ (\/ last'.op = "setattr"
                         \/ last'.op = "refresh" /\ ~last'.call.eager)) =>
            /\ obj'[h].audit = obj[h].audit
            /\ obj'[h].strategy = obj[h].strategy

C20_SaveKeepsRelations == [][C20_SaveStep /\ C20_StaleUntilEager]_vars

\* A plan loaded with audit 1 was given audit_id 2 and saved: the row and the
\* object have audit_id 2, the relationship is still audit 1.
C20_Witness ==
    /\ Ended("h1", "save", "ok")
    /\ obj["h1"].f.audit_id = 2
    /\ plans[obj["h1"].f.uuid].audit_id = 2
    /\ obj["h1"].audit = 1

-----------------------------------------------------------------------------
(* Order and scope of the cascades *)

CallPositions(log, op) == {i \in 1..Len(log) : log[i].op = op}

\* C15: destroy() issues destroy_action_plan after the destroy call of every
\* related EfficacyIndicator it listed, and as its last call; the changes of
\* the object are untouched by every step of destroy() but the one that
\* deleted the row, and after a destroy() that succeeded they are empty.
C15_IndicatorsBeforeRow ==
    \A h \in Handles :
        \A i \in CallPositions(calls[h], "destroy_action_plan") :
            /\ \A e \in listed[h].indicators :
                  /\ CalledBefore(calls[h], i, "destroy_efficacy_indicator", e)
                  /\ e \notin DOMAIN indicators
            /\ i = Len(calls[h])

C15_ResetAfterRow ==
    \A h \in Handles :
        Ended(h, "destroy", "ok") =>
            /\ last.call.op = "destroy_action_plan"
            /\ obj[h].f.uuid \notin DOMAIN plans
            /\ obj_get_changes(obj[h]) = <<>>

C15_NoResetBeforeRow ==
    \A h \in Handles :
        (last'.h = h /\ last'.op = "destroy" /\ last'.status # "ok") => obj'[h] = obj[h]

C16_SaveBeforeRowSoftDelete ==
    \A h \in Handles :
        LET at == CallPositions(calls[h], "soft_delete_action_plan")
        IN  /\ Cardinality(at) <= 1
            /\ \A i \in at :
                  /\ \E j \in 1..(i - 1) :
                        /\ calls[h][j].op = "update_action_plan"
                        /\ "state" \in DOMAIN calls[h][j].values
                        /\ calls[h][j].values.state = DELETED
                  /\ i = Len(calls[h])
            /\ Ended(h, "soft_delete", "ok") =>
                  /\ at = {Len(calls[h])}
                  /\ plans[obj[h].f.uuid].deleted
                  /\ \A k \in Columns : obj[h].f[k] = plans[obj[h].f.uuid][k]

\* A soft_delete() that succeeded on a plan without dependents: the listings,
\* the save(), the soft-delete of the row.
C16_Witness ==
    /\ Ended("h1", "soft_delete", "ok")
    /\ Len(calls["h1"]) = 4
    /\ calls["h1"][3].op = "update_action_plan"
    /\ calls["h1"][4].op = "soft_delete_action_plan"

\* C18: a step of soft_delete() or destroy() of a plan leaves every Action and
\* EfficacyIndicator of another plan, and every other plan row, as it was.
C18_StepScoped ==
    \A h \in Handles :
        (last'.h = h /\ last'.op \in {"soft_delete", "destroy"}) =>
            LET uuid == obj[h].f.uuid
            IN  /\ \A a \in DOMAIN actions :
                      actions[a].plan # uuid =>
                          (a \in DOMAIN actions' /\ actions'[a] = actions[a])
                /\ \A e \in DOMAIN indicators :
                      indicators[e].plan # uuid =>
                          (e \in DOMAIN indicators' /\ indicators'[e] = indicators[e])
                /\ \A u \in DOMAIN plans :
                      u # uuid => (u \in DOMAIN plans' /\ plans'[u] = plans[u])

C18_CascadeScoped == [][C18_StepScoped]_vars

\* A soft_delete() that succeeded on a plan with a related action while an
\* action and an indicator of the other plan are there, not soft-deleted.
C18_Witness ==
    /\ Ended("h1", "soft_delete", "ok")
    /\ listed["h1"].actions # {}
    /\ \E a \in DOMAIN actions : actions[a].plan # ThePlan /\ ~actions[a].deleted
    /\ \E e \in DOMAIN indicators : indicators[e].plan # ThePlan /\ ~indicators[e].deleted

-----------------------------------------------------------------------------
(* Two callers saving the same plan *)

\* Both callers load the plan with get_by_uuid(), assign, and save, in any
\* interleaving; neither calls refresh().
NextTwoSavers ==
    \/ \E h \in Handles, ok \in BOOLEAN : get_by_uuid(h, ThePlan, ok, FALSE)
    \/ \E h \in Handles : Assignments(h)
    \/ \E h \in Handles, ok \in BOOLEAN : save(h, ok)

SpecTwoSavers == Init /\ [][NextTwoSavers]_vars

\* C19: a save() that succeeded leaves every column of the row that its
\* caller did not assign as it found it, whatever the other caller saved in
\* the meantime, and does not touch the object of the other caller; so the row
\* carries the fields saved by both.
C19_SaveWritesOwnFields ==
    \A h \in Handles :
        (last'.h = h /\ last'.op = "save" /\ last'.status = "ok") =>
            /\ \A k \in Columns \ DOMAIN assigned[h] :
                  plans'[obj[h].f.uuid][k] = plans[obj[h].f.uuid][k]
            /\ \A g \in Handles \ {h} : obj'[g] = obj[g]

C19_DisjointSavesMerge == [][C19_SaveWritesOwnFields]_vars

====
